---- MODULE Spec2Model ----
(***************************************************************************)
(* Model of the Iris dataset API (api/routes/data.py) and of the service   *)
(* preprocessing function (services/data.py).                              *)
(*                                                                         *)
(* The state is the part of the file system the handlers look at (the      *)
(* Kaggle credentials file, the data directory, the dataset CSV), the      *)
(* process environment variable KAGGLE_CONFIG_DIR, and the response of the *)
(* request being answered.  The route handlers are `async def` functions   *)
(* without any `await`: on the event loop each runs to completion, so      *)
(* under Spec each handler is one action.  SpecThreads runs the steps of   *)
(* download_dataset on a pool of threads instead, the other scheduling     *)
(* the design text allows, to examine the race on the environment          *)
(* variable.                                                               *)
(*                                                                         *)
(* Library calls are modelled by what the libraries do:                    *)
(*   pandas.read_csv / DataFrame.drop / DataFrame.to_dict,                 *)
(*   sklearn LabelEncoder (classes_ = sorted distinct values),             *)
(*   sklearn StandardScaler (population mean and standard deviation),      *)
(*   sklearn train_test_split (ceil(test_size * n) test rows, taken from   *)
(*   the head of RandomState(42).permutation(n)),                          *)
(*   kagglehub.dataset_download (returns the path as a `str`, or raises).  *)
(***************************************************************************)
EXTENDS Integers, Sequences, FiniteSets, TLC

VARIABLES
    credentials,  \* KAGGLE_CREDENTIALS.is_file()
    dataDir,      \* DATA_PATH exists as a directory
    envVar,       \* os.environ["KAGGLE_CONFIG_DIR"], or Unset
    dataset,      \* the dataset CSV on disk: NoFile or [path, header, lines]
    resp,         \* the response of the request being answered (handler "none": idle)
    threads,      \* SpecThreads: each worker thread's position in download_dataset
    envWriter,    \* SpecThreads: the thread that last assigned envVar (0: nobody)
    lastSplit     \* SpecSplit: the split of the previous successful /preprocess-iris

vars == <<credentials, dataDir, envVar, dataset, resp, threads, envWriter, lastSplit>>

(***************************************************************************)
(* Bounds of the model.                                                    *)
(***************************************************************************)
MaxRows == 5        \* data rows a dataset file holds at most
NumThreads == 2     \* worker threads of SpecThreads

(***************************************************************************)
(* Module constants of the two source files.  A path is the sequence of    *)
(* its components.                                                         *)
(***************************************************************************)
DATA_PATH == <<"src", "data">>
DATASET_NAME == "iris.csv"
DATASET_PATH == Append(DATA_PATH, DATASET_NAME)
KAGGLE_CREDENTIALS == <<"src", "config", "kaggle.json">>

SERVICE_DATA_PATH == <<"TP2_and_3", "services", "epf-flower-data-science", "src", "data">>
SERVICE_DATASET_NAME == "Iris.csv"
SERVICE_DATASET_PATH == Append(SERVICE_DATA_PATH, SERVICE_DATASET_NAME)

\* Path.parent
Parent(p) == SubSeq(p, 1, Len(p) - 1)

Unset == <<>>
NoFile == [path |-> <<>>, header |-> <<>>, lines |-> <<>>]

Range(s) == {s[i] : i \in DOMAIN s}

(***************************************************************************)
(* CSV files.  A field of a data line is a token: a number (the features   *)
(* in tenths of a centimetre, the row identifier) or a text.  Every token  *)
(* has the same three fields so that any two can be compared.              *)
(***************************************************************************)
Num(n) == [t |-> "num", n |-> n, s |-> ""]
Txt(s) == [t |-> "str", n |-> 0, s |-> s]

\* The species names, in the order Python compares strings.
Species == <<"setosa", "versicolor", "virginica">>

\* The schemas a dataset file is written with: the lowercase schema the route
\* expects, the same with a row identifier, the same with a free-text column,
\* and Kaggle's Iris.csv.
HeaderPlain == <<"sepal_length", "sepal_width", "petal_length", "petal_width", "species">>
HeaderWithId == <<"id">> \o HeaderPlain
HeaderWithNotes == HeaderPlain \o <<"notes">>
HeaderKaggle == <<"Id", "SepalLengthCm", "SepalWidthCm", "PetalLengthCm", "PetalWidthCm", "Species">>
Headers == {HeaderPlain, HeaderWithId, HeaderWithNotes, HeaderKaggle}

\* The measurements a writer appends: one row of the Iris data per species.
SampleRows ==
    { <<Num(51), Num(35), Num(14), Num(2), Txt("setosa")>>,
      <<Num(70), Num(32), Num(47), Num(14), Txt("versicolor")>>,
      <<Num(63), Num(33), Num(60), Num(25), Txt("virginica")>> }

HasIdColumn(header) == header # <<>> /\ header[1] \in {"id", "Id"}
HasNotesColumn(header) == header # <<>> /\ header[Len(header)] = "notes"

\* The line a writer appends to a file that already holds k data lines.
LineFor(header, k, sample) ==
    (IF HasIdColumn(header) THEN <<Num(k + 1)>> ELSE <<>>)
    \o sample
    \o (IF HasNotesColumn(header) THEN <<Txt("measured by hand")>> ELSE <<>>)

(***************************************************************************)
(* Results of a computation that may raise: Ok(v) or Raise(type, message). *)
(***************************************************************************)
Ok(v) == [ok |-> TRUE, val |-> v, exc |-> "", msg |-> <<>>]
Raise(type, message) == [ok |-> FALSE, val |-> <<>>, exc |-> type, msg |-> message]

(***************************************************************************)
(* pandas                                                                  *)
(***************************************************************************)
\* dtype inference of read_csv: a column is numeric when every field of it is
\* a number; otherwise the column keeps the text of every field.
ColumnIsNumeric(lines, j) == \A i \in DOMAIN lines : lines[i][j].t = "num"

CellValue(tok, numeric) ==
    IF numeric THEN [t |-> "float", n |-> tok.n, s |-> ""]
               ELSE [t |-> "str", n |-> tok.n, s |-> tok.s]

\* pd.read_csv(path): a DataFrame [columns, rows], each row a mapping from
\* column name to value; an empty file has no header to parse.
ReadCsv(file) ==
    IF file.path = <<>>
    THEN Raise("FileNotFoundError", <<"No such file or directory">>)
    ELSE IF file.header = <<>>
    THEN Raise("EmptyDataError", <<"No columns to parse from file">>)
    ELSE Ok([columns |-> file.header,
             rows |-> [i \in DOMAIN file.lines |->
                        [c \in Range(file.header) |->
                           LET j == CHOOSE k \in DOMAIN file.header : file.header[k] = c
                           IN CellValue(file.lines[i][j], ColumnIsNumeric(file.lines, j))]]])

\* A conversion that loses the last row.
ToDictRecords_DropsLast(df) == SubSeq(df.rows, 1, Len(df.rows) - 1)

\* df.to_dict(orient="records")
ToDictRecords(df) == df.rows

\* df.drop(labels, axis=1), labels a list: every label must be a column.
Drop(df, labels) ==
    LET missing == SelectSeq(labels, LAMBDA l : l \notin Range(df.columns))
    IN IF missing # <<>>
       THEN Raise("KeyError", missing \o <<"not found in axis">>)
       ELSE Ok([columns |-> SelectSeq(df.columns, LAMBDA c : c \notin Range(labels)),
                rows |-> df.rows])

\* df[label]
Column(df, label) ==
    IF label \notin Range(df.columns)
    THEN Raise("KeyError", <<label>>)
    ELSE Ok([i \in DOMAIN df.rows |-> df.rows[i][label]])

\* The DataFrame as the 2-d array sklearn converts it to.
ToArray(df) == [i \in DOMAIN df.rows |-> [j \in DOMAIN df.columns |-> df.rows[i][df.columns[j]]]]

(***************************************************************************)
(* sklearn.preprocessing.LabelEncoder                                      *)
(***************************************************************************)
\* The position of a label among all labels, in Python's string order.
Rank(v) == CHOOSE k \in DOMAIN Species : Species[k] = v.s

\* The elements of S in ascending order (numpy.unique sorts).
RECURSIVE SortedUnique(_)
SortedUnique(S) ==
    IF S = {} THEN <<>>
    ELSE LET m == CHOOSE x \in S : \A z \in S : Rank(x) <= Rank(z)
         IN <<m>> \o SortedUnique(S \ {m})

\* The distinct elements of y in the order they first occur.
RECURSIVE FirstOccurrences(_)
FirstOccurrences(y) ==
    IF y = <<>> THEN <<>>
    ELSE LET front == FirstOccurrences(SubSeq(y, 1, Len(y) - 1))
         IN IF y[Len(y)] \in Range(front) THEN front ELSE Append(front, y[Len(y)])

\* An encoder that numbers the labels as they are first met.
ClassesByFirstOccurrence(y) == FirstOccurrences(y)

\* LabelEncoder.fit(y).classes_
Classes(y) == SortedUnique(Range(y))

\* LabelEncoder.fit_transform(y): the 0-based position of each label in classes_.
LabelEncoderFitTransform(y) ==
    LET classes == Classes(y)
    IN [i \in DOMAIN y |-> (CHOOSE k \in DOMAIN classes : classes[k] = y[i]) - 1]

(***************************************************************************)
(* sklearn.preprocessing.StandardScaler                                    *)
(***************************************************************************)
RECURSIVE SumSeq(_)
SumSeq(s) == IF s = <<>> THEN 0 ELSE s[1] + SumSeq(Tail(s))

\* The standardized value (x - mean) / std of x in a column xs of n numbers,
\* kept exact as the pair (num, den2) standing for num / sqrt(den2):
\*   mean = S/n, std^2 = Q/n - (S/n)^2, so (x - mean)/std = (n*x - S)/sqrt(n*Q - S*S).
\* A column of zero variance is scaled by 1 (sklearn's _handle_zeros_in_scale).
Standardize(x, xs) ==
    LET n == Len(xs)
        S == SumSeq(xs)
        Q == SumSeq([i \in DOMAIN xs |-> xs[i] * xs[i]])
        var == n * Q - S * S
    IN IF var = 0 THEN [num |-> n * x - S, den2 |-> 1]
                  ELSE [num |-> n * x - S, den2 |-> var]

\* StandardScaler().fit_transform(X), X an array of n rows: every entry must
\* convert to float and there must be at least one row.
StandardScalerFitTransform(X) ==
    IF \E i \in DOMAIN X : \E j \in DOMAIN X[i] : X[i][j].t = "str"
    THEN Raise("ValueError", <<"could not convert string to float">>)
    ELSE IF Len(X) = 0
    THEN Raise("ValueError", <<"Found array with 0 sample(s) while a minimum of 1 is required by StandardScaler">>)
    ELSE Ok([i \in DOMAIN X |-> [j \in DOMAIN X[i] |->
                Standardize(X[i][j].n, [k \in DOMAIN X |-> X[k][j].n])]])

(***************************************************************************)
(* sklearn.model_selection.train_test_split                                *)
(***************************************************************************)
TEST_SIZE_PERCENT == 20

\* numpy.random.RandomState(42).permutation(n), the row numbers counted from 1
\* (MT19937 seeded with 42, Fisher-Yates from the last position down).
Permutation42(n) ==
    CASE n = 0 -> <<>>
      [] n = 1 -> <<1>>
      [] n = 2 -> <<2, 1>>
      [] n = 3 -> <<1, 2, 3>>
      [] n = 4 -> <<2, 4, 1, 3>>
      [] n = 5 -> <<2, 5, 3, 1, 4>>
      [] n = 6 -> <<1, 2, 6, 3, 5, 4>>
      [] n = 7 -> <<1, 2, 6, 3, 5, 4, 7>>
      [] n = 8 -> <<2, 6, 1, 8, 3, 5, 4, 7>>
      [] n = 150 ->
              << 74, 19, 119, 79, 77, 32, 65, 142, 69, 83, 111, 13,
                   37, 10, 20, 57, 105, 70, 56, 133, 30, 128, 27, 129,
                   132, 146, 109, 144, 46, 31, 23, 16, 66, 12, 43, 147,
                   52, 28, 5, 33, 143, 86, 87, 17, 11, 82, 134, 138, 76,
                   110, 97, 106, 67, 1, 123, 68, 29, 41, 45, 61, 124,
                   25, 26, 24, 95, 40, 96, 118, 48, 98, 114, 34, 139,
                   102, 63, 85, 149, 54, 6, 94, 112, 50, 36, 81, 78, 35,
                   115, 8, 44, 71, 99, 121, 84, 135, 136, 90, 9, 14,
                   120, 126, 4, 18, 39, 73, 137, 7, 113, 101, 3, 64, 55,
                   127, 51, 116, 47, 140, 62, 148, 80, 60, 92, 42, 59,
                   91, 49, 89, 108, 125, 22, 58, 145, 130, 38, 141, 2,
                   53, 131, 104, 100, 117, 88, 75, 122, 150, 21, 72,
                   107, 15, 93, 103 >>

\* The test size rounded down.
NTest_Floor(n) == (TEST_SIZE_PERCENT * n) \div 100

\* n_test = ceil(test_size * n_samples)
NTest(n) == (TEST_SIZE_PERCENT * n + 99) \div 100

\* The row numbers of the training and of the test subset:
\* test = permutation[:n_test], train = permutation[n_test:n_test + n_train],
\* with n_train = n_samples - n_test, which must not be 0.
SplitIndices(n) ==
    LET n_test == NTest(n)
        n_train == n - n_test
        perm == Permutation42(n)
    IN IF n_train = 0
       THEN Raise("ValueError", <<"the resulting train set will be empty">>)
       ELSE Ok([train |-> SubSeq(perm, n_test + 1, n_test + n_train),
                test |-> SubSeq(perm, 1, n_test)])

\* _safe_indexing(a, indices)
Take(a, indices) == [k \in DOMAIN indices |-> a[indices[k]]]

(***************************************************************************)
(* The file system as the handlers see it.                                 *)
(***************************************************************************)
\* Path.is_file()
IsFile(p) ==
    IF p = KAGGLE_CREDENTIALS THEN credentials
    ELSE dataset.path # <<>> /\ dataset.path = p

\* The file open(p) finds.
FileAt(p) == IF dataset.path = p THEN dataset ELSE NoFile

\* Path.iterdir(): the files of a directory.
Listing(dir) ==
    IF dataset.path # <<>> /\ Parent(dataset.path) = dir THEN <<dataset.path>> ELSE <<>>

(***************************************************************************)
(* Responses.  `trace` records what the handler did on the way: whether    *)
(* its try block raised (and what), whether it read the dataset, what the  *)
(* download client did, and the row numbers of the split.                  *)
(***************************************************************************)
NoSplit == [train |-> <<>>, test |-> <<>>]
NoTrace == [raised |-> FALSE, exc |-> "", msg |-> <<>>, read |-> FALSE,
            client |-> "not called", split |-> NoSplit]
Idle == [handler |-> "none", name |-> "", status |-> 0, detail |-> <<>>,
         body |-> <<>>, trace |-> NoTrace]

\* raise HTTPException(status_code, detail)
HTTPException(handler, name, status_code, detail, trace) ==
    [handler |-> handler, name |-> name, status |-> status_code, detail |-> detail,
     body |-> <<>>, trace |-> trace]

\* return body (FastAPI answers 200)
Return(handler, name, body, trace) ==
    [handler |-> handler, name |-> name, status |-> 200, detail |-> <<>>,
     body |-> body, trace |-> trace]

\* An except clause that answers 400 and drops the message.
ExceptClause_BadRequest(handler, name, prefix, r, trace) ==
    HTTPException(handler, name, 400, <<prefix>>,
                  [trace EXCEPT !.raised = TRUE, !.exc = r.exc, !.msg = r.msg])

\* except Exception as e: raise HTTPException(status_code=500, detail=f"{prefix}{str(e)}")
ExceptClause(handler, name, prefix, r, trace) ==
    HTTPException(handler, name, 500, <<prefix>> \o r.msg,
                  [trace EXCEPT !.raised = TRUE, !.exc = r.exc, !.msg = r.msg])

CredentialsMissing == <<"Kaggle credentials not found. Place kaggle.json at ", "src/config/kaggle.json", ".">>
DatasetMissing == <<"Dataset '", DATASET_NAME, "' not found. Please download it first.">>

(***************************************************************************)
(* GET /datasets/{name}                                                    *)
(***************************************************************************)
Names == {"uciml/iris", "nobody/none"}
ValidNames == {"uciml/iris"}
ClientErrors == {<<"404 Client Error">>, <<"Connection refused">>}

\* kagglehub.dataset_download(name, path=...): returns the local path of the
\* download as a `str`, or raises; an unknown handle always raises.
ClientOutcomes(name) ==
    {Raise("KaggleApiHTTPError", m) : m \in ClientErrors}
    \cup (IF name \in ValidNames
          THEN {Ok([type |-> "str", path |-> <<"~", ".cache", "kagglehub", "datasets", name>>])}
          ELSE {})

\* dataset_path.iterdir(): a method of Path objects, not of `str`.
Iterdir(obj) ==
    IF obj.type = "Path"
    THEN Ok(Listing(obj.path))
    ELSE Raise("AttributeError", <<"'str' object has no attribute 'iterdir'">>)

\* A credentials location of the request's own.
ConfigDir_PerRequest(name) == <<"src", "config", name>>

\* The value of os.environ["KAGGLE_CONFIG_DIR"] the request of `name` assigns.
ConfigDir(name) == Parent(KAGGLE_CREDENTIALS)

\* The try block of download_dataset, given what the client did.
DownloadTry(name, outcome) ==
    IF ~outcome.ok THEN outcome
    ELSE LET files == Iterdir(outcome.val)
         IN IF ~files.ok THEN files
            ELSE Ok([message |-> <<"Dataset '", name, "' downloaded successfully.">>,
                     files |-> files.val])

\* The response of download_dataset once the credentials were found.
DownloadResponse(name, outcome) ==
    LET r == DownloadTry(name, outcome)
        trace == [NoTrace EXCEPT !.client = IF outcome.ok THEN "returned" ELSE "raised"]
    IN IF r.ok THEN Return("download", name, r.val, trace)
       ELSE ExceptClause("download", name, "Failed to download dataset: ", r, trace)

\* The check left out.
CredentialsFound_Skipped == TRUE

\* The credentials check that opens download_dataset.
CredentialsFound == IsFile(KAGGLE_CREDENTIALS)

\* download_dataset with the environment assigned before the credentials check.
download_dataset_EnvFirst ==
    /\ resp.handler = "none"
    /\ \E name \in Names :
         /\ envVar' = ConfigDir(name)
         /\ IF ~CredentialsFound
            THEN /\ resp' = HTTPException("download", name, 500, CredentialsMissing, NoTrace)
                 /\ UNCHANGED dataDir
            ELSE /\ dataDir' = TRUE
                 /\ \E outcome \in ClientOutcomes(name) :
                      resp' = DownloadResponse(name, outcome)
    /\ UNCHANGED <<credentials, dataset, threads, envWriter, lastSplit>>

download_dataset ==
    /\ resp.handler = "none"
    /\ \E name \in Names :
         IF ~CredentialsFound
         THEN /\ resp' = HTTPException("download", name, 500, CredentialsMissing, NoTrace)
              /\ UNCHANGED <<envVar, dataDir>>
         ELSE /\ envVar' = ConfigDir(name)
              /\ dataDir' = TRUE
              /\ \E outcome \in ClientOutcomes(name) :
                   resp' = DownloadResponse(name, outcome)
    /\ UNCHANGED <<credentials, dataset, threads, envWriter, lastSplit>>

(***************************************************************************)
(* GET /load-iris                                                          *)
(***************************************************************************)
\* The check left out.
DatasetFound_Skipped == TRUE

\* The dataset check that opens load_iris_dataset and preprocess_iris_data.
DatasetFound == IsFile(DATASET_PATH)

\* The try block of load_iris_dataset.
LoadTry(file) ==
    LET df == ReadCsv(file)
    IN IF ~df.ok THEN df ELSE Ok(ToDictRecords(df.val))

LoadResponse(file) ==
    LET r == LoadTry(file)
        trace == [NoTrace EXCEPT !.read = TRUE]
    IN IF r.ok THEN Return("load", "", r.val, trace)
       ELSE ExceptClause("load", "", "Error loading dataset: ", r, trace)

load_iris_dataset ==
    /\ resp.handler = "none"
    /\ resp' = IF ~DatasetFound
               THEN HTTPException("load", "", 404, DatasetMissing, NoTrace)
               ELSE LoadResponse(FileAt(DATASET_PATH))
    /\ UNCHANGED <<credentials, dataDir, envVar, dataset, threads, envWriter, lastSplit>>

(***************************************************************************)
(* GET /preprocess-iris                                                    *)
(***************************************************************************)
\* The columns the route removes to obtain X, and the column it takes as y.
RouteDropLabels == <<"species">>
RouteTarget == "species"

\* The try block of preprocess_iris_data (api/routes/data.py).
PreprocessTry(file) ==
    LET df == ReadCsv(file)
    IN IF ~df.ok THEN df ELSE
    LET X == Drop(df.val, RouteDropLabels)
    IN IF ~X.ok THEN X ELSE
    LET y == Column(df.val, RouteTarget)
    IN IF ~y.ok THEN y ELSE
    LET y_encoded == LabelEncoderFitTransform(y.val)
        X_scaled == StandardScalerFitTransform(ToArray(X.val))
    IN IF ~X_scaled.ok THEN X_scaled ELSE
    LET split == SplitIndices(Len(X_scaled.val))
    IN IF ~split.ok THEN split ELSE
       Ok([body |-> [message |-> "Data preprocessed successfully.",
                     train_data |-> [features |-> Take(X_scaled.val, split.val.train),
                                     labels |-> Take(y_encoded, split.val.train)],
                     test_data |-> [features |-> Take(X_scaled.val, split.val.test),
                                    labels |-> Take(y_encoded, split.val.test)]],
           split |-> split.val])

PreprocessResponse(file) ==
    LET r == PreprocessTry(file)
        trace == [NoTrace EXCEPT !.read = TRUE]
    IN IF r.ok THEN Return("preprocess", "", r.val.body, [trace EXCEPT !.split = r.val.split])
       ELSE ExceptClause("preprocess", "", "Error preprocessing dataset: ", r, trace)

preprocess_iris_data ==
    /\ resp.handler = "none"
    /\ resp' = IF ~DatasetFound
               THEN HTTPException("preprocess", "", 404, DatasetMissing, NoTrace)
               ELSE PreprocessResponse(FileAt(DATASET_PATH))
    /\ UNCHANGED <<credentials, dataDir, envVar, dataset, threads, envWriter, lastSplit>>

(***************************************************************************)
(* services/data.py: preprocess_iris_data()                                *)
(***************************************************************************)
ServiceDropLabels == <<"Species", "Id">>
ServiceTarget == "Species"

\* The function's result: Ok([X_scaled, y_encoded]), or the exception it lets
\* through (it has no try block and no file check).
ServicePreprocess(file) ==
    LET df == ReadCsv(file)
    IN IF ~df.ok THEN df ELSE
    LET X == Drop(df.val, ServiceDropLabels)
    IN IF ~X.ok THEN X ELSE
    LET y == Column(df.val, ServiceTarget)
    IN IF ~y.ok THEN y ELSE
    LET y_encoded == LabelEncoderFitTransform(y.val)
        X_scaled == StandardScalerFitTransform(ToArray(X.val))
    IN IF ~X_scaled.ok THEN X_scaled ELSE
       Ok([X_scaled |-> X_scaled.val, y_encoded |-> y_encoded])

\* A call of the service function; its caller receives the pair or the exception.
services_preprocess_iris_data ==
    /\ resp.handler = "none"
    /\ LET r == ServicePreprocess(FileAt(SERVICE_DATASET_PATH))
           trace == [NoTrace EXCEPT !.read = TRUE, !.raised = ~r.ok, !.exc = r.exc, !.msg = r.msg]
       IN resp' = [handler |-> "service", name |-> "", status |-> 0, detail |-> <<>>,
                   body |-> r.val, trace |-> trace]
    /\ UNCHANGED <<credentials, dataDir, envVar, dataset, threads, envWriter, lastSplit>>

(***************************************************************************)
(* The framework sends the response; the process is idle again.            *)
(***************************************************************************)
Respond ==
    /\ resp.handler # "none"
    /\ resp' = Idle
    /\ UNCHANGED <<credentials, dataDir, envVar, dataset, threads, envWriter, lastSplit>>

(***************************************************************************)
(* The environment: whoever administers the files the handlers look for.   *)
(* A handler runs to completion, so the files change between requests.     *)
(***************************************************************************)
PlaceCredentials ==
    /\ resp.handler = "none" /\ ~credentials
    /\ credentials' = TRUE
    /\ UNCHANGED <<dataDir, envVar, dataset, resp, threads, envWriter, lastSplit>>

RemoveCredentials ==
    /\ resp.handler = "none" /\ credentials
    /\ credentials' = FALSE
    /\ UNCHANGED <<dataDir, envVar, dataset, resp, threads, envWriter, lastSplit>>

\* A dataset file is created, empty or with a header line, at the route's or at
\* the service's location (one dataset file is on disk at a time).
CreateDataset ==
    /\ resp.handler = "none" /\ dataset = NoFile
    /\ \E path \in {DATASET_PATH, SERVICE_DATASET_PATH}, header \in Headers \cup {<<>>} :
         /\ dataset' = [path |-> path, header |-> header, lines |-> <<>>]
         /\ dataDir' = IF path = DATASET_PATH THEN TRUE ELSE dataDir
    /\ UNCHANGED <<credentials, envVar, resp, threads, envWriter, lastSplit>>

AppendLine ==
    /\ resp.handler = "none" /\ dataset.header # <<>> /\ Len(dataset.lines) < MaxRows
    /\ \E sample \in SampleRows :
         dataset' = [dataset EXCEPT !.lines =
                        Append(@, LineFor(dataset.header, Len(dataset.lines), sample))]
    /\ UNCHANGED <<credentials, dataDir, envVar, resp, threads, envWriter, lastSplit>>

RemoveDataset ==
    /\ resp.handler = "none" /\ dataset # NoFile
    /\ dataset' = NoFile
    /\ UNCHANGED <<credentials, dataDir, envVar, resp, threads, envWriter, lastSplit>>

RemoveDataDir ==
    /\ resp.handler = "none" /\ dataDir /\ dataset.path # DATASET_PATH
    /\ dataDir' = FALSE
    /\ UNCHANGED <<credentials, envVar, dataset, resp, threads, envWriter, lastSplit>>

(***************************************************************************)
(* Spec: one process, handlers run to completion on the event loop.        *)
(***************************************************************************)
IdleThread == [pc |-> "idle", name |-> "", wrote |-> Unset, used |-> Unset, status |-> 0]

Init ==
    /\ credentials = FALSE
    /\ dataDir = FALSE
    /\ envVar = Unset
    /\ dataset = NoFile
    /\ resp = Idle
    /\ threads = [t \in 1..NumThreads |-> IdleThread]
    /\ envWriter = 0
    /\ lastSplit = [n |-> 0, train |-> <<>>, test |-> <<>>]

Next ==
    \/ download_dataset
    \/ load_iris_dataset
    \/ preprocess_iris_data
    \/ services_preprocess_iris_data
    \/ Respond
    \/ PlaceCredentials
    \/ RemoveCredentials
    \/ CreateDataset
    \/ AppendLine
    \/ RemoveDataset
    \/ RemoveDataDir

Spec == Init /\ [][Next]_vars

(***************************************************************************)
(* SpecThreads: download_dataset run by a pool of worker threads, one      *)
(* statement at a time.  The environment variable is shared by the         *)
(* threads and nothing locks it.  Each thread keeps the value it assigned  *)
(* (`wrote`) and the value the client found when it ran (`used`).          *)
(***************************************************************************)
Threads == 1..NumThreads

\* A request arrives and a thread takes it.
T_Begin(t) ==
    /\ threads[t].pc = "idle"
    /\ \E name \in Names :
         threads' = [threads EXCEPT ![t] = [IdleThread EXCEPT !.pc = "check", !.name = name]]
    /\ UNCHANGED <<credentials, dataDir, envVar, dataset, resp, envWriter, lastSplit>>

\* if not KAGGLE_CREDENTIALS.is_file(): raise HTTPException(500, ...)
T_Check(t) ==
    /\ threads[t].pc = "check"
    /\ threads' = IF CredentialsFound
                  THEN [threads EXCEPT ![t].pc = "setenv"]
                  ELSE [threads EXCEPT ![t].pc = "done", ![t].status = 500]
    /\ UNCHANGED <<credentials, dataDir, envVar, dataset, resp, envWriter, lastSplit>>

\* os.environ["KAGGLE_CONFIG_DIR"] = str(KAGGLE_CREDENTIALS.parent)
T_SetEnv(t) ==
    /\ threads[t].pc = "setenv"
    /\ envVar' = ConfigDir(threads[t].name)
    /\ envWriter' = t
    /\ threads' = [threads EXCEPT ![t].pc = "mkdir", ![t].wrote = ConfigDir(threads[t].name)]
    /\ UNCHANGED <<credentials, dataDir, dataset, resp, lastSplit>>

\* DATA_PATH.mkdir(parents=True, exist_ok=True)
T_Mkdir(t) ==
    /\ threads[t].pc = "mkdir"
    /\ dataDir' = TRUE
    /\ threads' = [threads EXCEPT ![t].pc = "download"]
    /\ UNCHANGED <<credentials, envVar, dataset, resp, envWriter, lastSplit>>

\* The try block: the client runs with the environment variable as it is now.
T_Download(t) ==
    /\ threads[t].pc = "download"
    /\ \E outcome \in ClientOutcomes(threads[t].name) :
         threads' = [threads EXCEPT ![t].pc = "done", ![t].used = envVar,
                        ![t].status = DownloadResponse(threads[t].name, outcome).status]
    /\ UNCHANGED <<credentials, dataDir, envVar, dataset, resp, envWriter, lastSplit>>

\* The response is sent and the thread goes back to the pool.
T_Return(t) ==
    /\ threads[t].pc = "done"
    /\ threads' = [threads EXCEPT ![t] = IdleThread]
    /\ UNCHANGED <<credentials, dataDir, envVar, dataset, resp, envWriter, lastSplit>>

NextThreads ==
    \/ \E t \in Threads : T_Begin(t)
    \/ \E t \in Threads : T_Check(t)
    \/ \E t \in Threads : T_SetEnv(t)
    \/ \E t \in Threads : T_Mkdir(t)
    \/ \E t \in Threads : T_Download(t)
    \/ \E t \in Threads : T_Return(t)
    \/ PlaceCredentials
    \/ RemoveCredentials
    \/ RemoveDataDir

SpecThreads == Init /\ [][NextThreads]_vars

(***************************************************************************)
(* SpecSplit: /preprocess-iris asked again and again while the dataset     *)
(* file is rewritten; the split of the previous successful answer is kept  *)
(* to compare the next one with.                                           *)
(***************************************************************************)
RespondRemember ==
    /\ resp.handler # "none"
    /\ resp' = Idle
    /\ lastSplit' = IF resp.handler = "preprocess" /\ resp.status = 200
                    THEN [n |-> Len(dataset.lines), train |-> resp.trace.split.train,
                          test |-> resp.trace.split.test]
                    ELSE lastSplit
    /\ UNCHANGED <<credentials, dataDir, envVar, dataset, threads, envWriter>>

NextSplit ==
    \/ preprocess_iris_data
    \/ RespondRemember
    \/ CreateDataset
    \/ AppendLine
    \/ RemoveDataset

SpecSplit == Init /\ [][NextSplit]_vars

(***************************************************************************)
(* Properties.                                                             *)
(***************************************************************************)
\* The number of data rows of the dataset file and the labels written in it.
NRows == Len(dataset.lines)
LabelOfLine(column) ==
    LET j == CHOOSE k \in DOMAIN dataset.header : dataset.header[k] = column
    IN [i \in 1..NRows |-> dataset.lines[i][j].s]

\* The encoded label of every data row, put back in file order from the two
\* subsets of the /preprocess-iris answer.
RouteCodes ==
    LET tr == resp.trace.split.train
        te == resp.trace.split.test
    IN [i \in 1..NRows |->
          IF \E k \in DOMAIN tr : tr[k] = i
          THEN resp.body.train_data.labels[CHOOSE k \in DOMAIN tr : tr[k] = i]
          ELSE resp.body.test_data.labels[CHOOSE k \in DOMAIN te : te[k] = i]]

\* The row at which a label first occurs.
FirstRow(labels, l) == CHOOSE i \in DOMAIN labels : labels[i] = l /\ \A k \in 1..(i - 1) : labels[k] # l

\* Codes are dense from 0 and one per distinct label.
DenseCodes(codes, labels) ==
    /\ DOMAIN codes = DOMAIN labels
    /\ Range(codes) = 0..(Cardinality(Range(labels)) - 1)
    /\ \A i, k \in DOMAIN labels : (labels[i] = labels[k]) <=> (codes[i] = codes[k])

\* Codes grow with the labels' string order.
CodesInStringOrder(codes, labels) ==
    \A i, k \in DOMAIN labels :
        Rank([s |-> labels[i]]) < Rank([s |-> labels[k]]) => codes[i] < codes[k]

\* Codes grow with the rows at which the labels first occur.
CodesInFirstOccurrenceOrder(codes, labels) ==
    \A i, k \in DOMAIN labels :
        FirstRow(labels, labels[i]) < FirstRow(labels, labels[k]) => codes[i] < codes[k]

RouteAnswered == resp.handler = "preprocess" /\ resp.status = 200
ServiceAnswered == resp.handler = "service" /\ ~resp.trace.raised

\* C1: a download request made while the credentials file is absent is answered
\* 500 with the "Kaggle credentials not found" detail, whatever the identifier,
\* and never with a success.
C1_AbsentCredentialsFail ==
    (resp.handler = "download" /\ ~credentials)
        => /\ resp.status = 500
           /\ resp.detail = CredentialsMissing
           /\ resp.trace.client = "not called"

C1_Witness ==
    resp.handler = "download" /\ ~credentials /\ resp.name \in ValidNames /\ resp.status = 500

\* C2: with the credentials present and the download client returning without
\* raising, the answer is 200 with a non-empty list of files, and the data
\* directory exists afterwards.
C2_DownloadSucceeds ==
    (resp.handler = "download" /\ credentials /\ resp.trace.client = "returned")
        => /\ resp.status = 200
           /\ Len(resp.body.files) > 0
           /\ dataDir

\* C3: while the dataset CSV is absent at DATASET_PATH, /load-iris and
\* /preprocess-iris answer 404 with a detail naming the dataset, and neither has
\* read or transformed anything.
C3_AbsentDataset404 ==
    (resp.handler \in {"load", "preprocess"} /\ ~IsFile(DATASET_PATH))
        => /\ resp.status = 404
           /\ resp.detail = DatasetMissing
           /\ DATASET_NAME \in Range(resp.detail)
           /\ ~resp.trace.read
           /\ ~resp.trace.raised

C3_Witness ==
    resp.handler = "preprocess" /\ dataset = NoFile /\ resp.status = 404

\* C4: a failure of the download client, and a failure while reading or
\* transforming the dataset, is answered 500 with a detail that carries the
\* exception's message after the handler's prefix; no failure is answered
\* otherwise.
HandlerPrefix ==
    CASE resp.handler = "download" -> "Failed to download dataset: "
      [] resp.handler = "load" -> "Error loading dataset: "
      [] resp.handler = "preprocess" -> "Error preprocessing dataset: "

C4_FailuresAre500 ==
    /\ (resp.handler \in {"download", "load", "preprocess"} /\ resp.trace.raised)
          => /\ resp.status = 500
             /\ resp.detail = <<HandlerPrefix>> \o resp.trace.msg
             /\ resp.trace.msg # <<>>
    /\ (resp.handler = "download" /\ resp.trace.client = "raised") => resp.trace.raised
    /\ (resp.handler = "load" /\ DatasetFound /\ dataset.header = <<>>) => resp.trace.raised
    /\ (resp.handler = "preprocess" /\ DatasetFound
          /\ (dataset.header = <<>> \/ "species" \notin Range(dataset.header)
              \/ HasNotesColumn(dataset.header) \/ NRows < 2))
          => resp.trace.raised

C4_Witness ==
    resp.handler = "preprocess" /\ resp.trace.raised /\ resp.trace.exc = "ValueError"
        /\ resp.status = 500 /\ NRows = 1

\* C5: for a dataset file of N data rows /load-iris returns N row objects, in
\* the file's order, each with exactly the header's names as keys (and under
\* each key the field the line has in that column).
C5_LoadReturnsRows ==
    (resp.handler = "load" /\ DatasetFound /\ dataset.header # <<>>)
        => /\ resp.status = 200
           /\ Len(resp.body) = NRows
           /\ \A i \in 1..NRows :
                /\ DOMAIN resp.body[i] = Range(dataset.header)
                /\ \A j \in DOMAIN dataset.header :
                     /\ resp.body[i][dataset.header[j]].n = dataset.lines[i][j].n
                     /\ resp.body[i][dataset.header[j]].s = dataset.lines[i][j].s

C5_Witness ==
    resp.handler = "load" /\ resp.status = 200 /\ NRows >= 3
        /\ dataset.lines[1] # dataset.lines[2] /\ Len(resp.body) = NRows

\* C6 as amended: in a successful /preprocess-iris answer the training and the
\* test rows are disjoint and cover every input row once, the test subset holds
\* 20% of the rows rounded up to a whole row, features and labels of each subset
\* have equal length, a feature row of the four-feature schema has 4 entries, and
\* a dataset of as many rows as the previous one is split as that one was.
SplitIsPartition ==
    LET tr == resp.trace.split.train
        te == resp.trace.split.test
    IN /\ Range(tr) \cap Range(te) = {}
       /\ Range(tr) \cup Range(te) = 1..NRows
       /\ Len(tr) + Len(te) = NRows
       /\ Len(resp.body.train_data.features) = Len(tr)
       /\ Len(resp.body.train_data.labels) = Len(tr)
       /\ Len(resp.body.test_data.features) = Len(te)
       /\ Len(resp.body.test_data.labels) = Len(te)
       /\ dataset.header = HeaderPlain =>
            \A row \in Range(resp.body.train_data.features)
                         \cup Range(resp.body.test_data.features) : Len(row) = 4
       /\ lastSplit.n = NRows => (lastSplit.train = tr /\ lastSplit.test = te)

\* The split of the 150 rows of the Iris data: 120 training rows, 30 test rows.
Iris150Split ==
    LET s == SplitIndices(150)
    IN /\ s.ok
       /\ Len(s.val.train) = 120
       /\ Len(s.val.test) = 30
       /\ Range(s.val.train) \cap Range(s.val.test) = {}
       /\ Range(s.val.train) \cup Range(s.val.test) = 1..150

C7_CodesSorted ==
    /\ RouteAnswered
          => /\ DenseCodes(RouteCodes, LabelOfLine("species"))
             /\ CodesInStringOrder(RouteCodes, LabelOfLine("species"))
    /\ ServiceAnswered
          => /\ Len(resp.body.y_encoded) = NRows
             /\ DenseCodes(resp.body.y_encoded, LabelOfLine("Species"))
             /\ CodesInStringOrder(resp.body.y_encoded, LabelOfLine("Species"))

C7_Witness ==
    RouteAnswered /\ NRows = 3
        /\ LabelOfLine("species") = <<"virginica", "setosa", "virginica">>
        /\ RouteCodes = <<1, 0, 1>>

\* C7 as stated: the same, with the codes assigned in the order in which the
\* labels are first encountered in the input.
C7_CodesFirstOccurrence ==
    /\ RouteAnswered
          => /\ DenseCodes(RouteCodes, LabelOfLine("species"))
             /\ CodesInFirstOccurrenceOrder(RouteCodes, LabelOfLine("species"))
    /\ ServiceAnswered
          => /\ Len(resp.body.y_encoded) = NRows
             /\ DenseCodes(resp.body.y_encoded, LabelOfLine("Species"))
             /\ CodesInFirstOccurrenceOrder(resp.body.y_encoded, LabelOfLine("Species"))

C9_FourFeatureColumns ==
    /\ (RouteAnswered /\ HasIdColumn(dataset.header))
          => \A row \in Range(resp.body.train_data.features)
                           \cup Range(resp.body.test_data.features) : Len(row) = 4
    /\ (ServiceAnswered /\ HasIdColumn(dataset.header))
          => \A row \in Range(resp.body.X_scaled) : Len(row) = 4

\* C10: a download request answered with the missing-credentials error has
\* left KAGGLE_CONFIG_DIR and the data directory as they were and has not called
\* the download client; /load-iris and /preprocess-iris leave KAGGLE_CONFIG_DIR
\* and the dataset file as they were.
C10_Frame ==
    [][ /\ (resp.handler = "none" /\ resp'.handler = "download"
              /\ resp'.detail = CredentialsMissing)
           => /\ envVar' = envVar
              /\ dataDir' = dataDir
              /\ resp'.trace.client = "not called"
        /\ (resp.handler = "none" /\ resp'.handler \in {"load", "preprocess"})
           => /\ envVar' = envVar
              /\ dataset' = dataset
              /\ credentials' = credentials ]_vars

C10_Witness ==
    resp.handler = "download" /\ resp.detail = CredentialsMissing
        /\ envVar = Unset /\ ~dataDir

====
